---- MODULE Spec2Model ----
(***************************************************************************)
(* Result resolution and aggregation pipeline of Quantuzo.                 *)
(*                                                                         *)
(*   scripts/run_evaluation.py   main(): locate and parse the harness      *)
(*                               report, fall back to per-instance JSON    *)
(*                               files and to run_instance.log texts,      *)
(*                               compute the resolution rate.              *)
(*   scripts/analyze_results.py  load_all_results(), the extractor,         *)
(*                               print_summary(), print_swebench_table().  *)
(*                                                                         *)
(* Files are read once each; what a read returns is drawn when the read    *)
(* happens.  Rates of the analysis side are held in thousandths of a       *)
(* percent (50.009 is 50009), the rate computed by run_evaluation as the   *)
(* exact fraction resolved*100 / total_instances.                          *)
(***************************************************************************)
EXTENDS Integers, Sequences, FiniteSets, TLC

\* ------------------------------------------------------------------ bounds
MaxPatches == 1      \* entries of patches.json
MaxIds     == 2      \* instance ids listed in a report, over its three lists
MaxInst    == 1      \* further JSON files below results_dir/logs
MaxLogs    == 2      \* run_instance.log files below results_dir/logs

\* ------------------------------------------------------- JSON, abstracted
\* A JSON value: absent key, list of n items, number n, boolean, string s, null.
Absent  == [t |-> "absent", n |-> 0, s |-> ""]
List(n) == [t |-> "list",   n |-> n, s |-> ""]
Num(n)  == [t |-> "num",    n |-> n, s |-> ""]
Bool(b) == [t |-> "bool",   n |-> IF b THEN 1 ELSE 0, s |-> ""]
Str(s)  == [t |-> "str",    n |-> 1, s |-> s]
Null    == [t |-> "null",   n |-> 0, s |-> ""]

\* len(v): defined for lists and strings, TypeError for the rest.
Sized(v) == v.t \in {"list", "str"}
\* x.get(key, []) followed by len(): an absent key counts as the empty list.
OrEmpty(v) == IF v.t = "absent" THEN List(0) ELSE v
\* Python truthiness of a JSON value.
Truthy(v) == CASE v.t = "list" -> v.n > 0
               [] v.t = "num"  -> v.n # 0
               [] v.t = "bool" -> v.n = 1
               [] v.t = "str"  -> v.n > 0
               [] OTHER        -> FALSE

Keys == {"resolved_ids", "unresolved_ids", "error_ids",
         "resolved", "unresolved", "error", "status"}

\* A file read as JSON: kind "invalid" does not parse, "array" parses to a
\* value that is no object, "object" carries the keys below, "none" is no file.
Doc(kind, rids, uids, eids, res, unres, err, st) ==
    [kind |-> kind, resolved_ids |-> rids, unresolved_ids |-> uids,
     error_ids |-> eids, resolved |-> res, unresolved |-> unres,
     error |-> err, status |-> st]
Plain(kind) == Doc(kind, Absent, Absent, Absent, Absent, Absent, Absent, Absent)
NoDoc == Plain("none")

Statuses == {Str("resolved"), Str("error"), Str("failed")}

\* Three lists of ids, by their lengths.
IdTriples == {t \in (0..MaxIds) \X (0..MaxIds) \X (0..MaxIds) :
                t[1] + t[2] + t[3] <= MaxIds}
\* The second and third key of a report: a list, or absent, or no list at all.
Deviant == {<<Absent, List(1)>>, <<Num(5), List(1)>>, <<List(1), Absent>>,
            <<List(1), Num(5)>>, <<Absent, Absent>>}

V2Docs ==
    {Doc("object", List(t[1]), List(t[2]), List(t[3]), Absent, Absent, Absent, Absent) :
        t \in IdTriples}
    \cup {Doc("object", List(1), v[1], v[2], Absent, Absent, Absent, Absent) :
        v \in Deviant}
    \cup {Doc("object", Null, List(1), List(1), Absent, Absent, Absent, Absent)}
LegacyDocs ==
    {Doc("object", Absent, Absent, Absent, List(t[1]), List(t[2]), List(t[3]), Absent) :
        t \in IdTriples}
    \cup {Doc("object", Absent, Absent, Absent, List(1), v[1], v[2], Absent) :
        v \in Deviant}
InstanceDocs ==
    {Doc("object", Absent, Absent, Absent, r, Absent, Absent, s) :
        r \in {Bool(TRUE), Bool(FALSE), Null}, s \in {Absent, Str("resolved")}}
    \cup {Doc("object", Absent, Absent, Absent, Absent, Absent, Absent, s) :
        s \in Statuses \cup {Absent}}
Docs == V2Docs \cup LegacyDocs \cup InstanceDocs \cup {Plain("invalid"), Plain("array")}

Has(doc, key) == doc.kind = "object" /\ doc[key].t # "absent"

\* ------------------------------------------------------------ run_evaluation
search_dirs     == <<"logs", "cwd", "results_dir">>
report_patterns == <<"*.run_id.json", "report.json", "run_id.json", "results.json">>
NumDirs     == Len(search_dirs)
NumPatterns == Len(report_patterns)
Slots  == (1..NumDirs) \X (1..NumPatterns)
NoFile == <<0, 0>>
Unset  == [num |-> 0, den |-> 0]

VARIABLES
    pc,               \* position in main()
    patches,          \* patches.json: per patch, whether it is submitted
    logs_exists,      \* results_dir/logs exists
    present,          \* (directory, pattern) pairs whose glob has a match
    di, pj,           \* indices of the two search loops
    report_file,      \* the match taken, NoFile for None
    report,           \* what the report file holds
    report_found,
    results_summary,
    scan_left,        \* other JSON files below logs still to be read
    scan_report,      \* the report file lies below logs and is still to be read
    instance_result,  \* the per-instance file read last
    json_read,        \* per-instance files read so far
    log_left,         \* run_instance.log files still to be read
    log_read,         \* run_instance.log files read so far
    pre_log,          \* the three counts when the log tier's guard was evaluated
    content,          \* the log text read last: the substrings it contains
    log_files,        \* the run_instance.log paths the glob has yielded so far
    load_pc,          \* position in load_all_results()
    seen,             \* the entries of the results root iterated so far
    grouped,          \* benchmark -> entries admitted, <<>> for no key
    results,          \* what the extractor returned for the last entry
    table_pc,         \* position in print_swebench_table()
    group,            \* the list handed to print_swebench_table, in load order
    sorted_results,   \* the list after line 133
    baseline_rate,    \* NoRate for None
    rows              \* the lines printed, one per entry

evalVars == <<pc, patches, logs_exists, present, di, pj, report_file, report,
              report_found, results_summary, scan_left, scan_report,
              instance_result, json_read, log_left, log_read, pre_log, content,
              log_files>>

loadVars  == <<load_pc, seen, grouped, results>>
tableVars == <<table_pc, group, sorted_results, baseline_rate, rows>>

vars == <<evalVars, loadVars, tableVars>>

Counts == <<results_summary.resolved, results_summary.failed, results_summary.error>>

\* The layouts of the three directories: a match needs its directory.
Layouts ==
    {l \in [ex : BOOLEAN, files : SUBSET Slots] :
        \A f \in l.files : f[1] = 1 => l.ex}
\* The harness writes one report per run, or none.
HarnessLayouts ==
    {l \in [ex : BOOLEAN, files : {{}} \cup {{f} : f \in Slots}] :
        \A f \in l.files : f[1] = 1 => l.ex}

DirExists(d) == IF d = 1 THEN logs_exists ELSE TRUE

\* results_summary["instances"]: the list of line 88, holding the per-instance
\* documents appended by the scan (counted, not kept) and the entries appended
\* by the log tier, or the parsed report put in its place (lines 135, 142).
NoInstances     == [kind |-> "list", scanned |-> 0, logged |-> <<>>]
ReportInstances == [kind |-> "report", scanned |-> 0, logged |-> <<>>]

NoText == [paf |-> FALSE, failed |-> FALSE, passed |-> FALSE, readable |-> FALSE]

\* ------------------------------------------- analyze_results: the values
\* Lines 40-45: the benchmark identifiers with an extractor.
EXTRACTORS == {"swe-bench", "swe-bench-lite", "swe-bench-full", "swe-bench-verified"}

\* What an extractor hands back: a summary, None, or an exception passing through.
NoResult == [kind |-> "none", total |-> 0, resolved |-> 0, failed |-> 0, rate |-> 0]
Raised   == [kind |-> "raise", total |-> 0, resolved |-> 0, failed |-> 0, rate |-> 0]
NoRate   == 0 - 1

LoadIdle ==
    /\ load_pc = "idle"
    /\ seen = <<>>
    /\ grouped = [b \in EXTRACTORS |-> <<>>]
    /\ results = NoResult
TableIdle ==
    /\ table_pc = "idle"
    /\ group = <<>>
    /\ sorted_results = <<>>
    /\ baseline_rate = NoRate
    /\ rows = <<>>
EvalIdle ==
    /\ pc = "idle"
    /\ patches = <<>>
    /\ logs_exists = FALSE
    /\ present = {}
    /\ di = 1
    /\ pj = 1
    /\ report_file = NoFile
    /\ report = NoDoc
    /\ report_found = FALSE
    /\ results_summary = [total_instances |-> 0, predictions_submitted |-> 0,
                          resolved |-> 0, failed |-> 0, error |-> 0,
                          instances |-> NoInstances,
                          resolution_rate |-> Unset]
    /\ scan_left = 0
    /\ scan_report = FALSE
    /\ instance_result = NoDoc
    /\ json_read = 0
    /\ log_left = 0
    /\ log_read = 0
    /\ pre_log = <<0, 0, 0>>
    /\ content = NoText
    /\ log_files = <<>>

EvalStart(at, ex, files) ==
    /\ pc = at
    /\ patches = <<>>
    /\ logs_exists = ex
    /\ present = files
    /\ di = 1
    /\ pj = 1
    /\ report_file = NoFile
    /\ report = NoDoc
    /\ report_found = FALSE
    /\ results_summary = [total_instances |-> 0, predictions_submitted |-> 0,
                          resolved |-> 0, failed |-> 0, error |-> 0,
                          instances |-> NoInstances,
                          resolution_rate |-> Unset]
    /\ scan_left = 0
    /\ scan_report = FALSE
    /\ instance_result = NoDoc
    /\ json_read = 0
    /\ log_left = 0
    /\ log_read = 0
    /\ pre_log = <<0, 0, 0>>
    /\ content = NoText
    /\ log_files = <<>>
    /\ LoadIdle
    /\ TableIdle

\* main() is entered with nothing read yet.
InitEval == EvalStart("start", FALSE, {})

PatchLists == UNION {[1..n -> BOOLEAN] : n \in 0..MaxPatches}

\* Lines 31-55: a missing patches file ends the run with status 1; otherwise
\* the patches are loaded and those with status success and a patch submitted.
LoadPatches ==
    /\ pc = "start"
    /\ \/ /\ pc' = "exit1"
          /\ UNCHANGED patches
       \/ /\ \E p \in PatchLists : patches' = p
          /\ pc' = "harness"
    /\ UNCHANGED <<logs_exists, present, di, pj, report_file, report, report_found,
                   results_summary, scan_left, scan_report, instance_result,
                   json_read, log_left, log_read, pre_log, content, log_files,
                   loadVars, tableVars>>

\* total_instances taken from the predictions instead of the patches.
TotalFromPredictions == Cardinality({i \in 1..Len(patches) : patches[i]})

\* Line 84: total_instances is len(patches); line 85: the predictions submitted.
TotalInstances == Len(patches)
PredictionsSubmitted == Cardinality({i \in 1..Len(patches) : patches[i]})

\* Lines 57-90: the harness runs (an exception ends the run with status 1) and
\* leaves its files; the summary starts with the counts at 0.
RunHarness ==
    /\ pc = "harness"
    /\ \/ /\ pc' = "exit1"
          /\ UNCHANGED <<logs_exists, present, results_summary>>
       \/ /\ \E l \in HarnessLayouts :
                /\ logs_exists' = l.ex
                /\ present' = l.files
          /\ results_summary' = [results_summary EXCEPT
                !.total_instances = TotalInstances,
                !.predictions_submitted = PredictionsSubmitted]
          /\ pc' = "search"
    /\ UNCHANGED <<patches, di, pj, report_file, report, report_found,
                   scan_left, scan_report, instance_result,
                   json_read, log_left, log_read, pre_log, content, log_files,
                   loadVars, tableVars>>

searchRest == <<patches, logs_exists, present, report, report_found,
                results_summary, scan_left, scan_report, instance_result,
                json_read, log_left, log_read, pre_log, content, log_files,
                loadVars, tableVars>>

\* Lines 112-114: a directory that does not exist is passed over.
SearchSkipDir ==
    /\ pc = "search"
    /\ di <= NumDirs
    /\ ~DirExists(di)
    /\ di' = di + 1
    /\ pj' = 1
    /\ UNCHANGED <<pc, report_file>>
    /\ UNCHANGED searchRest

\* SearchGlob without the break of line 119: a later match replaces the first.
SearchGlobNoBreak ==
    /\ pc = "search"
    /\ di <= NumDirs
    /\ DirExists(di)
    /\ pj <= NumPatterns
    /\ report_file' = IF <<di, pj>> \in present THEN <<di, pj>> ELSE report_file
    /\ pj' = pj + 1
    /\ UNCHANGED <<pc, di>>
    /\ UNCHANGED searchRest

\* Lines 115-121: one glob; a match is taken and ends both loops.
SearchGlob ==
    /\ pc = "search"
    /\ di <= NumDirs
    /\ DirExists(di)
    /\ pj <= NumPatterns
    /\ IF <<di, pj>> \in present
         THEN /\ report_file' = <<di, pj>>
              /\ pc' = "parse"
              /\ UNCHANGED <<di, pj>>
         ELSE /\ pj' = pj + 1
              /\ UNCHANGED <<pc, di, report_file>>
    /\ UNCHANGED searchRest

\* Lines 115, 120: the patterns are exhausted without a match; next directory.
SearchNextDir ==
    /\ pc = "search"
    /\ di <= NumDirs
    /\ DirExists(di)
    /\ pj > NumPatterns
    /\ di' = di + 1
    /\ pj' = 1
    /\ UNCHANGED <<pc, report_file>>
    /\ UNCHANGED searchRest

\* Line 112: the directories are exhausted; report_file stays None.
SearchEnd ==
    /\ pc = "search"
    /\ di > NumDirs
    /\ pc' = "parse"
    /\ UNCHANGED <<di, pj, report_file>>
    /\ UNCHANGED searchRest

SearchNext == SearchSkipDir \/ SearchGlob \/ SearchNextDir \/ SearchEnd

\* The search alone (lines 94-121), entered with any layout of the directories.
InitSearch ==
    \E l \in Layouts : EvalStart("search", l.ex, l.files)


\* Lines 132-136 and 139-143: the three counts are assigned one after the
\* other, each from len() of its list; a value without a length raises at its
\* assignment, which keeps the assignments made before it and leaves
\* report_found False.
AssignLens(s, a, b, c) ==
    IF ~Sized(a) THEN [found |-> FALSE, summary |-> s]
    ELSE IF ~Sized(b)
      THEN [found |-> FALSE, summary |-> [s EXCEPT !.resolved = a.n]]
    ELSE IF ~Sized(c)
      THEN [found |-> FALSE,
            summary |-> [s EXCEPT !.resolved = a.n, !.failed = b.n]]
    ELSE [found |-> TRUE,
          summary |-> [s EXCEPT !.resolved = a.n, !.failed = b.n, !.error = c.n,
                                !.instances = ReportInstances]]

\* Lines 124-145: schema detection of the parsed report.  A file that does not
\* parse raises in json.load, a value that is no object raises in report.keys().
ParseReport(s, d) ==
    IF d.kind # "object" THEN [found |-> FALSE, summary |-> s]
    ELSE IF Has(d, "resolved_ids")
      THEN AssignLens(s, d.resolved_ids, OrEmpty(d.unresolved_ids), OrEmpty(d.error_ids))
    ELSE IF Has(d, "resolved") /\ d.resolved.t = "list"
      THEN AssignLens(s, d.resolved, OrEmpty(d.unresolved), OrEmpty(d.error))
    ELSE [found |-> FALSE, summary |-> s]

\* Lines 123-148: the report file, when there is one, is read and parsed.
Parse ==
    /\ pc = "parse"
    /\ IF report_file # NoFile
         THEN \E d \in Docs :
                /\ report' = d
                /\ report_found' = ParseReport(results_summary, d).found
                /\ results_summary' = ParseReport(results_summary, d).summary
         ELSE UNCHANGED <<report, report_found, results_summary>>
    /\ pc' = "scan"
    /\ UNCHANGED <<patches, logs_exists, present, di, pj, report_file,
                   scan_left, scan_report, instance_result,
                   json_read, log_left, log_read, pre_log, content, log_files,
                   loadVars, tableVars>>

\* The scan entered whatever the report step found.
ScanGuardAlways == logs_exists

\* Line 151: the per-instance scan is entered without a structured report,
\* when the logs directory exists.
ScanGuard == ~report_found /\ logs_exists

\* Lines 151-152: the scan globs **/*.json below logs, which also yields the
\* report candidates that lie there.
\* The parsed report lives on as results_summary["instances"] when it was
\* recognized; otherwise only the file is left, to be read again by the scan
\* when it lies below logs.
ScanEnter ==
    /\ pc = "scan"
    /\ IF ScanGuard
         THEN /\ \E n \in 0..MaxInst :
                    scan_left' = n + Cardinality({f \in present \ {report_file} : f[1] = 1})
              /\ scan_report' = (report_file[1] = 1)
              /\ report' = IF report_file[1] = 1 THEN report ELSE NoDoc
              /\ pc' = "scanloop"
         ELSE /\ pc' = "logs"
              /\ report' = IF report_found THEN report ELSE NoDoc
              /\ UNCHANGED <<scan_left, scan_report>>
    /\ UNCHANGED <<patches, logs_exists, present, di, pj, report_file,
                   report_found, results_summary, instance_result,
                   json_read, log_left, log_read, pre_log, content, log_files,
                   loadVars, tableVars>>

Bump(s, key) == [s EXCEPT ![key] = @ + 1]
\* Lines 161 and 167: the document is appended to the instances, then counted.
Counted(s, key) == Bump([s EXCEPT !.instances.scanned = @ + 1], key)

\* ScanOne with the status looked at before the resolved field.
ScanOneStatusFirst(s, d) ==
    IF d.kind # "object" THEN s
    ELSE IF Has(d, "status")
      THEN IF d.status = Str("resolved") THEN Counted(s, "resolved")
           ELSE IF d.status = Str("error") THEN Counted(s, "error")
           ELSE Counted(s, "failed")
    ELSE IF Has(d, "resolved")
      THEN IF Truthy(d.resolved) THEN Counted(s, "resolved") ELSE Counted(s, "failed")
    ELSE s

\* Lines 153-175: one per-instance file.  An exception (a file that does not
\* parse, a value without .get) is swallowed.
ScanOne(s, d) ==
    IF d.kind # "object" THEN s
    ELSE IF Has(d, "resolved")
      THEN IF Truthy(d.resolved) THEN Counted(s, "resolved") ELSE Counted(s, "failed")
    ELSE IF Has(d, "status")
      THEN IF d.status = Str("resolved") THEN Counted(s, "resolved")
           ELSE IF d.status = Str("error") THEN Counted(s, "error")
           ELSE Counted(s, "failed")
    ELSE s

ScanFile ==
    /\ pc = "scanloop"
    /\ \/ /\ scan_report
          /\ scan_report' = FALSE
          /\ instance_result' = report
          /\ report' = NoDoc
          /\ UNCHANGED scan_left
       \/ /\ scan_left > 0
          /\ scan_left' = scan_left - 1
          /\ \E d \in Docs : instance_result' = d
          /\ UNCHANGED <<scan_report, report>>
    /\ results_summary' = ScanOne(results_summary, instance_result')
    /\ json_read' = json_read + 1
    /\ UNCHANGED <<pc, patches, logs_exists, present, di, pj, report_file,
                   report_found, log_left, log_read, pre_log, content, log_files,
                   loadVars, tableVars>>

ScanEnd ==
    /\ pc = "scanloop"
    /\ ~scan_report
    /\ scan_left = 0
    /\ pc' = "logs"
    /\ instance_result' = NoDoc
    /\ UNCHANGED <<patches, logs_exists, present, di, pj, report_file, report,
                   report_found, results_summary, scan_left, scan_report,
                   json_read, log_left, log_read, pre_log, content, log_files,
                   loadVars, tableVars>>

\* The guard of the log tier without its test of the error count.
LogGuardNoError ==
    /\ results_summary.resolved = 0
    /\ results_summary.failed = 0

\* Line 178: the log tier is entered when the three counts are all 0.
LogGuard ==
    /\ results_summary.resolved = 0
    /\ results_summary.failed = 0
    /\ results_summary.error = 0

\* The run_instance.log files there can be below logs, as path components:
\* one directly in logs, the others in the directory of their instance.
LogPaths ==
    {<<"results_dir", "logs", "run_instance.log">>}
    \cup {<<"results_dir", "logs", "run_id", i, "run_instance.log">> :
             i \in {"inst_a", "inst_b"}}
MaxLogFiles == IF MaxLogs < Cardinality(LogPaths) THEN MaxLogs ELSE Cardinality(LogPaths)

\* Lines 178-179: the guard is evaluated once; the glob of a missing
\* directory yields nothing.
LogEnter ==
    /\ pc = "logs"
    /\ pre_log' = Counts
    /\ IF LogGuard
         THEN /\ \E n \in 0..(IF logs_exists THEN MaxLogFiles ELSE 0) : log_left' = n
              /\ pc' = "logloop"
         ELSE /\ pc' = "rate"
              /\ UNCHANGED log_left
    /\ UNCHANGED <<patches, logs_exists, present, di, pj, report_file, report,
                   report_found, results_summary, scan_left, scan_report,
                   instance_result, json_read, log_read, content, log_files,
                   loadVars, tableVars>>

\* What read_text() can return: the three substrings present or not, or an error.
Texts == {t \in [paf : BOOLEAN, failed : BOOLEAN, passed : BOOLEAN, readable : BOOLEAN] :
            ~t.readable => t = NoText}

\* Lines 181-193: the class of one log text.
ClassifyLog(t) ==
    IF ~t.readable THEN "skip"
    ELSE IF t.paf \/ t.failed THEN "error"
    ELSE IF t.passed THEN "resolved"
    ELSE "failed"

\* Line 183: log_file.parent.name.
ParentName(path) == path[Len(path) - 1]

\* Lines 184-192: the count of the class goes up by one, then the entry is
\* appended to the instances; append on the report put there by line 135 or
\* 142 raises AttributeError, which line 193 swallows with the count kept.
RecordLog(s, path, t) ==
    LET status  == ClassifyLog(t)
        counted == Bump(s, status)
    IN IF status = "skip" THEN s
       ELSE IF s.instances.kind # "list" THEN counted
       ELSE [counted EXCEPT !.instances.logged =
                Append(@, [instance_id |-> ParentName(path), status |-> status])]

\* Lines 179-193: the next file of the glob, each file once.
LogFile ==
    /\ pc = "logloop"
    /\ log_left > 0
    /\ log_left' = log_left - 1
    /\ log_read' = log_read + 1
    /\ \E p \in LogPaths \ {log_files[k] : k \in 1..Len(log_files)} :
          \E t \in Texts :
             /\ log_files' = Append(log_files, p)
             /\ content' = t
             /\ results_summary' = RecordLog(results_summary, p, t)
    /\ UNCHANGED <<pc, patches, logs_exists, present, di, pj, report_file, report,
                   report_found, scan_left, scan_report, instance_result,
                   json_read, pre_log,
                   loadVars, tableVars>>

LogEnd ==
    /\ pc = "logloop"
    /\ log_left = 0
    /\ pc' = "rate"
    /\ content' = NoText
    /\ UNCHANGED <<patches, logs_exists, present, di, pj, report_file, report,
                   report_found, results_summary, scan_left, scan_report,
                   instance_result, json_read, log_left, log_read, pre_log, log_files,
                   loadVars, tableVars>>

\* Lines 196-201: resolved / total_instances * 100, or 0.0 without instances.
ResolutionRate(res, total) ==
    IF total > 0 THEN [num |-> res * 100, den |-> total]
    ELSE [num |-> 0, den |-> 1]

\* Lines 195-205: the rate is computed and the summary saved.
Rate ==
    /\ pc = "rate"
    /\ results_summary' = [results_summary EXCEPT !.resolution_rate =
            ResolutionRate(results_summary.resolved, results_summary.total_instances)]
    /\ pc' = "done"
    /\ UNCHANGED <<patches, logs_exists, present, di, pj, report_file, report,
                   report_found, scan_left, scan_report, instance_result,
                   json_read, log_left, log_read, pre_log, content, log_files,
                   loadVars, tableVars>>

NextEval ==
    \/ LoadPatches \/ RunHarness
    \/ SearchSkipDir \/ SearchGlob \/ SearchNextDir \/ SearchEnd
    \/ Parse
    \/ ScanEnter \/ ScanFile \/ ScanEnd
    \/ LogEnter \/ LogFile \/ LogEnd
    \/ Rate

SpecEval   == InitEval /\ [][NextEval]_vars
SpecSearch == InitSearch /\ [][SearchNext]_vars

\* ------------------------------------------- analyze_results: the loader
MaxDirs == 2         \* entries of the results root
MaxRuns == 3         \* entries of one benchmark group

\* A JSON number field of evaluation_results.json: absent, or its value.
NoField == 0 - 1
\* evaluation_results.json: kind "missing", "invalid" (does not parse), "array"
\* (parses, no object) or "object" with its four fields.
EvalFile(kind, total, res, failed, rate) ==
    [kind |-> kind, total_instances |-> total, resolved |-> res,
     failed |-> failed, resolution_rate |-> rate]
EvalFiles ==
    {EvalFile(k, NoField, NoField, NoField, NoField) :
        k \in {"missing", "invalid", "array", "object"}}
    \cup {EvalFile("object", 2, 1, 1, 50000), EvalFile("object", 0, 0, 0, 0),
          EvalFile("object", NoField, 1, 1, 50000), EvalFile("object", 2, NoField, 1, 50000),
          EvalFile("object", 2, 1, NoField, 50000), EvalFile("object", 2, 1, 1, NoField)}

\* metadata.json: kind "missing", "invalid", "falsy" (parses to [], {}, null,
\* 0 or ""), "truthy" (parses to a non-empty value that is no object) or
\* "object"; benchmark "" stands for an object without the key.
MetaFile(kind, benchmark, kv) ==
    [kind |-> kind, benchmark |-> benchmark, kv_type_k |-> kv[1], kv_type_v |-> kv[2]]
KVLoaded == {<<"f16", "f16">>, <<"q4_0", "q4_0">>}
Benchmarks == {"swe-bench-lite", "swe-bench-verified", "humaneval", ""}
MetaFiles ==
    {MetaFile(k, "swe-bench-lite", <<"f16", "f16">>) :
        k \in {"missing", "invalid", "falsy", "truthy"}}
    \cup {MetaFile("object", b, kv) : b \in Benchmarks, kv \in KVLoaded}

\* One entry of the results root: a directory with its two files, or a plain
\* file.  The evaluation file is read only below metadata with a registered
\* benchmark, and varies only there.
Registered(m) == m.kind = "object" /\ m.benchmark \in EXTRACTORS
RunDirs ==
    {[is_dir |-> TRUE, metadata |-> m, evaluation |-> e] :
        m \in {x \in MetaFiles : Registered(x)}, e \in EvalFiles}
    \cup {[is_dir |-> TRUE, metadata |-> m,
           evaluation |-> EvalFile("object", 2, 1, 1, 50000)] :
        m \in {x \in MetaFiles : ~Registered(x) /\ x.kv_type_k = "f16"}}
    \cup {[is_dir |-> FALSE, metadata |-> MetaFile("missing", "swe-bench-lite", <<"f16", "f16">>),
           evaluation |-> EvalFile("missing", NoField, NoField, NoField, NoField)]}

Get(v, default) == IF v = NoField THEN default ELSE v

\* Lines 18-35: None for a missing file and for JSON that does not parse; a
\* value without .get raises AttributeError, which line 34 does not catch;
\* an object gives a summary, a missing field its default.
extract_swebench_results(e) ==
    IF e.kind = "missing" THEN NoResult
    ELSE IF e.kind = "invalid" THEN NoResult
    ELSE IF e.kind = "array" THEN Raised
    ELSE [kind |-> "summary", total |-> Get(e.total_instances, 0),
          resolved |-> Get(e.resolved, 0), failed |-> Get(e.failed, 0),
          rate |-> Get(e.resolution_rate, 0)]

\* Lines 52-62: None, or whatever the file parses to.
load_metadata(m) ==
    IF m.kind \in {"missing", "invalid"} THEN [m EXCEPT !.kind = "none"] ELSE m

\* Lines 96-106: the entry, named by its directory.
Entry(i, m, r) ==
    [run_dir |-> i, benchmark |-> m.benchmark, kv_type_k |-> m.kv_type_k,
     kv_type_v |-> m.kv_type_v, rate |-> r.rate, resolved |-> r.resolved,
     total |-> r.total, failed |-> r.failed]

\* LoadOne with the entry put in place of its group instead of appended to it.
LoadOneKeepsLast(g, i, d) ==
    LET m == load_metadata(d.metadata)
        r == extract_swebench_results(d.evaluation)
        skip == [grouped |-> g, results |-> NoResult, raised |-> FALSE]
    IN IF ~d.is_dir THEN skip
       ELSE IF m.kind \in {"none", "falsy"} THEN skip
       ELSE IF m.kind = "truthy" THEN [skip EXCEPT !.raised = TRUE]
       ELSE IF m.benchmark \notin EXTRACTORS THEN skip
       ELSE IF r.kind = "raise" THEN [grouped |-> g, results |-> r, raised |-> TRUE]
       ELSE IF r.kind = "none" THEN [skip EXCEPT !.results = r]
       ELSE [grouped |-> [g EXCEPT ![m.benchmark] = <<Entry(i, m, r)>>],
             results |-> r, raised |-> FALSE]

\* Lines 76-110, for entry number i of the iteration: what it does to grouped,
\* and whether an exception leaves load_all_results.
LoadOne(g, i, d) ==
    LET m == load_metadata(d.metadata)
        r == extract_swebench_results(d.evaluation)
        skip == [grouped |-> g, results |-> NoResult, raised |-> FALSE]
    IN IF ~d.is_dir THEN skip
       ELSE IF m.kind \in {"none", "falsy"} THEN skip
       ELSE IF m.kind = "truthy" THEN [skip EXCEPT !.raised = TRUE]
       ELSE IF m.benchmark \notin EXTRACTORS THEN skip
       ELSE IF r.kind = "raise" THEN [grouped |-> g, results |-> r, raised |-> TRUE]
       ELSE IF r.kind = "none" THEN [skip EXCEPT !.results = r]
       ELSE [grouped |-> [g EXCEPT ![m.benchmark] = Append(@, Entry(i, m, r))],
             results |-> r, raised |-> FALSE]

InitLoad ==
    /\ EvalIdle
    /\ TableIdle
    /\ load_pc = "iter"
    /\ seen = <<>>
    /\ grouped = [b \in EXTRACTORS |-> <<>>]
    /\ results = NoResult

\* Lines 75-110: the next entry of results_dir.iterdir().
LoadDir ==
    /\ load_pc = "iter"
    /\ Len(seen) < MaxDirs
    /\ \E d \in RunDirs :
          LET out == LoadOne(grouped, Len(seen) + 1, d)
          IN /\ seen' = Append(seen, d)
             /\ grouped' = out.grouped
             /\ results' = out.results
             /\ load_pc' = IF out.raised THEN "raised" ELSE "iter"
    /\ UNCHANGED <<evalVars, tableVars>>

\* Lines 72-73 and 112: the iteration is over (or the root does not exist).
LoadReturn ==
    /\ load_pc = "iter"
    /\ load_pc' = "returned"
    /\ UNCHANGED <<seen, grouped, results>>
    /\ UNCHANGED <<evalVars, tableVars>>

NextLoad == LoadDir \/ LoadReturn
SpecLoad == InitLoad /\ [][NextLoad]_vars

\* -------------------------------------------- analyze_results: the table
\* Rates in thousandths of a percent; 0.01 is 10.
Epsilon == 10
Rates   == {0, 50000, 50009, 50010, 50020}
KVPairs == {<<"f16", "f16">>, <<"f16", "q8_0">>, <<"q4_0", "q4_0">>}
TableEntries ==
    {[kv_type_k |-> kv[1], kv_type_v |-> kv[2], rate |-> r] : kv \in KVPairs, r \in Rates}

\* The list left as loaded.
Unsorted(xs) == xs

RECURSIVE InsertAsc(_, _)
InsertAsc(xs, x) ==
    IF xs = <<>> THEN <<x>>
    ELSE IF Head(xs).rate <= x.rate THEN <<Head(xs)>> \o InsertAsc(Tail(xs), x)
    ELSE <<x>> \o xs
RECURSIVE SortAscFrom(_, _)
SortAscFrom(acc, xs) ==
    IF xs = <<>> THEN acc ELSE SortAscFrom(InsertAsc(acc, Head(xs)), Tail(xs))
\* The list sorted by rising rate and then reversed, in place of reverse=True:
\* entries of equal rate come out in the reverse of their order.
AscendingReversed(xs) ==
    LET ys == SortAscFrom(<<>>, xs)
    IN [k \in 1..Len(ys) |-> ys[Len(ys) + 1 - k]]

RECURSIVE InsertDesc(_, _)
\* x put behind every element whose rate is not below its own.
InsertDesc(xs, x) ==
    IF xs = <<>> THEN <<x>>
    ELSE IF Head(xs).rate >= x.rate THEN <<Head(xs)>> \o InsertDesc(Tail(xs), x)
    ELSE <<x>> \o xs

RECURSIVE SortFrom(_, _)
SortFrom(acc, xs) ==
    IF xs = <<>> THEN acc ELSE SortFrom(InsertDesc(acc, Head(xs)), Tail(xs))

\* Line 133: sorted(..., key=rate, reverse=True); the sort is stable, entries
\* of equal rate keep their order.
SortedByRateDesc(xs) == SortFrom(<<>>, xs)

IsF16(r) == r.kv_type_k = "f16" /\ r.kv_type_v = "f16"

\* Lines 136-145: the rate of the first f16/f16 entry of the sorted list,
\* else the rate of its first entry.
BaselineOf(xs) ==
    IF \E k \in 1..Len(xs) : IsF16(xs[k])
      THEN xs[CHOOSE k \in 1..Len(xs) :
                /\ IsF16(xs[k])
                /\ \A j \in 1..(k - 1) : ~IsF16(xs[j])].rate
    ELSE IF xs # <<>> THEN xs[1].rate
    ELSE NoRate

Abs(x) == IF x < 0 THEN 0 - x ELSE x
Marker == [marker |-> TRUE, sign |-> "", tenths |-> 0]
\* "{delta:+.1f}%": the sign and the value rounded to one decimal.
Signed(delta) ==
    [marker |-> FALSE, sign |-> IF delta < 0 THEN "-" ELSE "+",
     tenths |-> (Abs(delta) + 50) \div 100]

\* Line 166 with >= in place of >.
DeltaStrAtLeast(rate, base) ==
    IF base # NoRate /\ base # 0 /\ base > 0
      THEN IF Abs(rate - base) >= Epsilon THEN Signed(rate - base) ELSE Marker
    ELSE Marker

\* Lines 164-168: the delta column of one entry.
DeltaStr(rate, base) ==
    IF base # NoRate /\ base # 0 /\ base > 0
      THEN IF Abs(rate - base) > Epsilon THEN Signed(rate - base) ELSE Marker
    ELSE Marker

InitTable ==
    /\ EvalIdle
    /\ LoadIdle
    /\ table_pc = "group"
    /\ group = <<>>
    /\ sorted_results = <<>>
    /\ baseline_rate = NoRate
    /\ rows = <<>>

\* analyze_results.py line 110: one more entry appended to the group.
GroupAppend ==
    /\ table_pc = "group"
    /\ Len(group) < MaxRuns
    /\ \E e \in TableEntries :
          group' = Append(group, [run_id |-> Len(group) + 1, kv_type_k |-> e.kv_type_k,
                                  kv_type_v |-> e.kv_type_v, rate |-> e.rate])
    /\ UNCHANGED <<table_pc, sorted_results, baseline_rate, rows>>
    /\ UNCHANGED <<evalVars, loadVars>>

\* Lines 127-172: the table of one group; nothing for an empty list.
PrintTable ==
    /\ table_pc = "group"
    /\ table_pc' = "printed"
    /\ IF group = <<>>
         THEN UNCHANGED <<sorted_results, baseline_rate, rows>>
         ELSE LET xs == SortedByRateDesc(group)
                  base == BaselineOf(xs)
              IN /\ sorted_results' = xs
                 /\ baseline_rate' = base
                 /\ rows' = [k \in 1..Len(xs) |->
                        [run_id |-> xs[k].run_id, rate |-> xs[k].rate,
                         delta_str |-> DeltaStr(xs[k].rate, base)]]
    /\ UNCHANGED group
    /\ UNCHANGED <<evalVars, loadVars>>

NextTable == GroupAppend \/ PrintTable
SpecTable == InitTable /\ [][NextTable]_vars

\* ------------------------------- analyze_results: load, then print_summary
RECURSIVE LoadFrom(_, _, _, _)
\* Lines 75-110 from entry number k of the iteration on: the directories ds,
\* named by their place in ds, iterated in the order q.
LoadFrom(g, ds, q, k) ==
    IF k > Len(q) THEN [grouped |-> g, raised |-> FALSE]
    ELSE LET out == LoadOne(g, q[k], ds[q[k]])
         IN IF out.raised THEN [grouped |-> out.grouped, raised |-> TRUE]
            ELSE LoadFrom(out.grouped, ds, q, k + 1)

\* Lines 65-112: what load_all_results returns for the directories ds when
\* iterdir() yields them in the order q, or that an exception leaves it.
load_all_results(ds, q) == LoadFrom([b \in EXTRACTORS |-> <<>>], ds, q, 1)

\* Lines 97 and 133-168: what the table reads of an entry; run_id falls back
\* to the name of the directory.
TableEntry(e) ==
    [run_id |-> e.run_dir, kv_type_k |-> e.kv_type_k, kv_type_v |-> e.kv_type_v,
     rate |-> e.rate]
TableGroup(es) == [k \in 1..Len(es) |-> TableEntry(es[k])]

\* Lines 127-172: the sorted list, the baseline rate and the lines printed.
print_swebench_table(xs) ==
    LET sorted == SortedByRateDesc(xs)
        base   == BaselineOf(sorted)
    IN [sorted_results |-> sorted, baseline_rate |-> base,
        rows |-> [k \in 1..Len(sorted) |->
                    [run_id |-> sorted[k].run_id, rate |-> sorted[k].rate,
                     delta_str |-> DeltaStr(sorted[k].rate, base)]]]

\* Line 181: sorted(grouped_results.items()), the benchmarks by name.
SortedBenchmarks == <<"swe-bench", "swe-bench-full", "swe-bench-lite", "swe-bench-verified">>
Printed == {k \in 1..Len(SortedBenchmarks) : SortedBenchmarks[k] = table_pc}
ToPrint ==
    {k \in 1..Len(SortedBenchmarks) :
        /\ grouped[SortedBenchmarks[k]] # <<>>
        /\ \A j \in Printed : j < k}

\* Lines 181-184: the table of the next benchmark that has entries; table_pc
\* holds the benchmark printed last.
PrintGroup ==
    /\ load_pc = "returned"
    /\ ToPrint # {}
    /\ LET k == CHOOSE n \in ToPrint : \A j \in ToPrint : n <= j
           t == print_swebench_table(TableGroup(grouped[SortedBenchmarks[k]]))
       IN /\ table_pc' = SortedBenchmarks[k]
          /\ group' = TableGroup(grouped[SortedBenchmarks[k]])
          /\ sorted_results' = t.sorted_results
          /\ baseline_rate' = t.baseline_rate
          /\ rows' = t.rows
    /\ UNCHANGED <<evalVars, loadVars>>

NextReport == LoadDir \/ LoadReturn \/ PrintGroup
SpecReport == InitLoad /\ [][NextReport]_vars

\* ------------------------------------------------ claims on run_evaluation
Before(s, t) == s[1] < t[1] \/ (s[1] = t[1] /\ s[2] <= t[2])
FirstMatch ==
    IF present = {} THEN NoFile
    ELSE CHOOSE s \in present : \A t \in present : Before(s, t)

\* C1: the report file taken is the first match in (directory, pattern) order,
\* directories outermost: a match in an earlier directory beats any match in a
\* later one, whatever their patterns, and in the first directory the
\* run-scoped pattern beats report.json.
C1_FirstMatchWins ==
    pc = "parse" =>
        /\ report_file = FirstMatch
        /\ \A s \in present : \A t \in present : s[1] < t[1] => report_file # t
        /\ (<<1, 1>> \in present /\ <<1, 2>> \in present) => report_file = <<1, 1>>
        /\ (report_file # NoFile => DirExists(report_file[1]))

C1_Witness ==
    /\ pc = "parse"
    /\ report_file = <<2, 3>>
    /\ ~logs_exists
    /\ <<3, 1>> \in present
    /\ <<2, 4>> \in present

\* The shapes the report step recognizes, as the specification words them.
IsList(v) == v.t = "list"
IsListOrAbsent(v) == v.t \in {"list", "absent"}
ShapeV2(d) ==
    /\ Has(d, "resolved_ids")
    /\ IsList(d.resolved_ids)
    /\ IsListOrAbsent(d.unresolved_ids)
    /\ IsListOrAbsent(d.error_ids)
ShapeLegacy(d) ==
    /\ ~Has(d, "resolved_ids")
    /\ Has(d, "resolved")
    /\ IsList(d.resolved)
    /\ IsListOrAbsent(d.unresolved)
    /\ IsListOrAbsent(d.error)

\* C2: right after the report step, a version-2 report gives the lengths of
\* its three _ids lists, a legacy report the lengths of its three lists, and
\* any other shape (a file that does not parse included) leaves report_found
\* False and the three counts at 0.
C2_SchemaDetection ==
    (pc = "scan" /\ report_file # NoFile) =>
        IF ShapeV2(report)
          THEN /\ report_found
               /\ Counts = <<report.resolved_ids.n, report.unresolved_ids.n,
                             report.error_ids.n>>
        ELSE IF ShapeLegacy(report)
          THEN /\ report_found
               /\ Counts = <<report.resolved.n, report.unresolved.n, report.error.n>>
        ELSE /\ ~report_found
             /\ Counts = <<0, 0, 0>>

AfterLogGuard == pc \in {"logloop", "rate", "done"}

\* C3 as claimed: with a recognized report, the empty one included, neither
\* the per-instance scan nor the log scan changes the three counts.
C3_FoundNeverFallsBack ==
    report_found =>
        /\ json_read = 0
        /\ AfterLogGuard => Counts = pre_log

\* C3, amended: with a recognized report the per-instance scan reads no file;
\* when one of the report's lists is not empty the log scan reads none either
\* and the counts stay those of the report.
C3_FoundWithDataNeverFallsBack ==
    report_found =>
        /\ json_read = 0
        /\ (AfterLogGuard /\ pre_log # <<0, 0, 0>>) =>
               (Counts = pre_log /\ log_read = 0)

C3_Witness ==
    /\ pc = "done"
    /\ report_found
    /\ logs_exists
    /\ Counts = <<1, 1, 0>>

\* C4: a run_instance.log is read only when the three counts were all 0 once
\* the report step and the per-instance scan were over; otherwise the counts
\* stay as they were.
C4_LogTierOnlyFromZero ==
    /\ (log_read > 0 \/ log_left > 0) => pre_log = <<0, 0, 0>>
    /\ (AfterLogGuard /\ pre_log # <<0, 0, 0>>) => (log_read = 0 /\ Counts = pre_log)

C4_Witness ==
    /\ pc = "done"
    /\ report_found
    /\ logs_exists
    /\ pre_log = <<0, 1, 0>>
    /\ Counts = <<0, 1, 0>>

\* C5: the rate written is resolved * 100 / len(patches), 0 for no patches;
\* with resolved <= len(patches) it lies in [0, 100].
C5_ResolutionRate ==
    pc = "done" =>
        LET r == results_summary.resolution_rate
            n == Len(patches)
        IN /\ results_summary.total_instances = n
           /\ IF n > 0
                THEN r = [num |-> results_summary.resolved * 100, den |-> n]
                ELSE r = [num |-> 0, den |-> 1]
           /\ results_summary.resolved <= n =>
                (0 <= r.num /\ r.num <= 100 * r.den)

C5_Witness ==
    /\ pc = "done"
    /\ Len(patches) > 0
    /\ PredictionsSubmitted < Len(patches)
    /\ results_summary.resolved > 0
    /\ results_summary.resolution_rate.num = 100 * results_summary.resolution_rate.den

\* What one per-instance file adds to (resolved, failed, error), as claimed.
FileDelta(d) ==
    IF d.kind = "object" /\ d.resolved.t # "absent"
      THEN IF Truthy(d.resolved) THEN <<1, 0, 0>> ELSE <<0, 1, 0>>
    ELSE IF d.kind = "object" /\ d.status.t # "absent"
      THEN CASE d.status.s = "resolved" -> <<1, 0, 0>>
             [] d.status.s = "error"    -> <<0, 0, 1>>
             [] OTHER                   -> <<0, 1, 0>>
    ELSE <<0, 0, 0>>
FilesToScan == scan_left + (IF scan_report THEN 1 ELSE 0)

\* C10: each JSON file read by the per-instance scan adds at most one to the
\* counts: by its resolved field when it has one, else by its status, nothing
\* when it has neither or does not parse; the scan then goes on with the rest.
C10_PerInstanceFile ==
    [][json_read' # json_read =>
          /\ json_read' = json_read + 1
          /\ Counts'[1] = Counts[1] + FileDelta(instance_result')[1]
          /\ Counts'[2] = Counts[2] + FileDelta(instance_result')[2]
          /\ Counts'[3] = Counts[3] + FileDelta(instance_result')[3]
          /\ pc' = "scanloop"
          /\ FilesToScan' = FilesToScan - 1]_vars

C10_Witness ==
    /\ pc = "scanloop"
    /\ json_read = 2
    /\ instance_result.status = Str("error")
    /\ instance_result.resolved = Absent
    /\ Counts = <<0, 0, 1>>

\* The class the claim gives a log text, by its three substrings.
LogClass(t) ==
    IF t.paf \/ t.failed THEN "error"
    ELSE IF t.passed THEN "resolved"
    ELSE "failed"
ClassDelta(c) ==
    CASE c = "resolved" -> <<1, 0, 0>>
      [] c = "failed"   -> <<0, 1, 0>>
      [] c = "error"    -> <<0, 0, 1>>
DirOf(path)  == SubSeq(path, 1, Len(path) - 1)
NameOf(path) == path[Len(path)]
log_file == log_files[Len(log_files)]

\* C11: each run_instance.log whose text is read adds one to exactly one of
\* error, resolved, failed: error when the text contains "Patch Apply Failed"
\* or "FAILED" (with "PASSED" or without), else resolved when it contains
\* "PASSED", else failed; and an entry with that status and the name of the
\* log's parent directory as instance identifier is recorded in the instances.
C11_LogClassifiedAndRecorded ==
    [][(log_read' # log_read /\ content'.readable) =>
          LET c == LogClass(content')
          IN /\ Counts'[1] = Counts[1] + ClassDelta(c)[1]
             /\ Counts'[2] = Counts[2] + ClassDelta(c)[2]
             /\ Counts'[3] = Counts[3] + ClassDelta(c)[3]
             /\ results_summary'.instances.kind = "list"
             /\ results_summary'.instances.logged =
                   Append(results_summary.instances.logged,
                          [instance_id |-> NameOf(DirOf(log_file')), status |-> c])]_vars

\* ------------------------------------------------ claims on analyze_results
F16Rates == {group[k].rate : k \in {j \in 1..Len(group) : IsF16(group[j])}}
AllRates == {group[k].rate : k \in 1..Len(group)}
MaxOf(S) == CHOOSE x \in S : \A y \in S : y <= x
FirstF16Loaded == CHOOSE k \in 1..Len(group) :
                      IsF16(group[k]) /\ \A j \in 1..(k - 1) : ~IsF16(group[j])

\* C6 as claimed: with an f16/f16 entry in the group the baseline is the first
\* such entry in load order, whatever its rate; without one it is the
\* highest-rate entry.
C6_BaselineFirstLoaded ==
    (table_pc = "printed" /\ group # <<>>) =>
        IF F16Rates # {} THEN baseline_rate = group[FirstF16Loaded].rate
        ELSE baseline_rate = MaxOf(AllRates)

\* C6, amended: with an f16/f16 entry in the group the baseline is the first
\* such entry of the list sorted by rate, that is the highest-rate f16/f16
\* entry (it need not be the highest-rate entry of the group); without one it
\* is the highest-rate entry.
C6_BaselineBestF16 ==
    (table_pc = "printed" /\ group # <<>>) =>
        IF F16Rates # {} THEN baseline_rate = MaxOf(F16Rates)
        ELSE baseline_rate = MaxOf(AllRates)

C6_Witness ==
    /\ table_pc = "printed"
    /\ Len(group) = 3
    /\ IsF16(group[1]) /\ group[1].rate = 50000
    /\ IsF16(group[2]) /\ group[2].rate = 50010
    /\ ~IsF16(group[3]) /\ group[3].rate = 50020
    /\ baseline_rate = 50010

RowDelta(k) == rows[k].rate - baseline_rate

\* C7 as claimed: the delta of a row is its rate less the baseline rate, shown
\* as "-" exactly when its absolute value is below 0.01 or the baseline rate
\* is zero, and signed otherwise.
C7_MarkerBelowEpsilon ==
    table_pc = "printed" =>
        \A k \in 1..Len(rows) :
            /\ rows[k].delta_str.marker <=>
                  (Abs(RowDelta(k)) < Epsilon \/ baseline_rate = 0)
            /\ ~rows[k].delta_str.marker => rows[k].delta_str = Signed(RowDelta(k))

\* C7, amended: "-" exactly when the absolute delta is at most 0.01 or the
\* baseline rate is zero; a delta above 0.01 is shown signed.
C7_MarkerUpToEpsilon ==
    table_pc = "printed" =>
        \A k \in 1..Len(rows) :
            /\ rows[k].delta_str.marker <=>
                  (Abs(RowDelta(k)) <= Epsilon \/ baseline_rate = 0)
            /\ ~rows[k].delta_str.marker => rows[k].delta_str = Signed(RowDelta(k))

C7_Witness ==
    /\ table_pc = "printed"
    /\ baseline_rate = 50000
    /\ \E j, k \in 1..Len(rows) :
          /\ rows[j].rate = 50010 /\ rows[j].delta_str = Marker
          /\ rows[k].rate = 50020 /\ rows[k].delta_str = Signed(20)

\* What the claim admits: a directory whose metadata parses to an object with
\* a registered benchmark and whose extraction gives a result.
Admitted(d) ==
    /\ d.is_dir
    /\ Registered(d.metadata)
    /\ extract_swebench_results(d.evaluation).kind = "summary"
DirsIn(b) == {grouped[b][k].run_dir : k \in 1..Len(grouped[b])}

\* C8: load_all_results never raises, and what it returns holds, under each
\* benchmark, exactly the directories with parsing metadata, a registered
\* benchmark and an extraction result.
C8_LoadNeverAborts ==
    /\ load_pc # "raised"
    /\ load_pc = "returned" =>
          \A b \in EXTRACTORS :
              DirsIn(b) = {i \in 1..Len(seen) :
                              Admitted(seen[i]) /\ seen[i].metadata.benchmark = b}

LacksField(e) ==
    \/ e.kind # "object"
    \/ NoField \in {e.total_instances, e.resolved, e.failed, e.resolution_rate}

\* C9: for the entry just loaded, when the extractor was called: no result for
\* an evaluation file that is missing, does not parse or lacks one of the four
\* fields (the entry is then not admitted); a summary, admitted, when the four
\* fields are there, zeros included.
C9_NoResultOnMissingField ==
    (seen # <<>> /\ seen[Len(seen)].is_dir /\ Registered(seen[Len(seen)].metadata)) =>
        LET d == seen[Len(seen)]
        IN IF LacksField(d.evaluation)
             THEN /\ results = NoResult
                  /\ Len(seen) \notin DirsIn(d.metadata.benchmark)
             ELSE /\ results.kind = "summary"
                  /\ Len(seen) \in DirsIn(d.metadata.benchmark)

\* C12: the table lists every entry of the group once, in non-increasing order
\* of rate, entries of equal rate in their order in the loaded group; the
\* loaded group itself keeps its order.
C12_SortedStable ==
    (table_pc = "printed" /\ group # <<>>) =>
        /\ Len(rows) = Len(group)
        /\ {rows[k].run_id : k \in 1..Len(rows)} = 1..Len(group)
        /\ \A k \in 1..Len(rows) : rows[k].rate = group[rows[k].run_id].rate
        /\ \A j, k \in 1..Len(rows) :
              j < k => /\ rows[j].rate >= rows[k].rate
                       /\ rows[j].rate = rows[k].rate => rows[j].run_id < rows[k].run_id
        /\ \A i \in 1..Len(group) : group[i].run_id = i

C12_Witness ==
    /\ table_pc = "printed"
    /\ Len(group) = 3
    /\ group[1].rate = 50000 /\ group[2].rate = 50020 /\ group[3].rate = 50000
    /\ rows[1].run_id = 2 /\ rows[2].run_id = 1 /\ rows[3].run_id = 3

Perms(n) == {q \in [1..n -> 1..n] : \A i, j \in 1..n : q[i] = q[j] => i = j}
Members(xs) == {xs[k] : k \in 1..Len(xs)}

\* C13: whatever the order in which the same directories are iterated,
\* load_all_results ends the same way and admits the same entries into the
\* same groups, and the table of a group has the same baseline rate, the same
\* rate at each line and the same delta for every entry; lines can change
\* places only among entries of equal rate.
C13_OrderIndependent ==
    load_pc \in {"returned", "raised"} =>
        \A q \in Perms(Len(seen)) :
            LET other == load_all_results(seen, q)
            IN /\ other.raised <=> load_pc = "raised"
               /\ ~other.raised =>
                    \A b \in EXTRACTORS :
                        /\ Len(other.grouped[b]) = Len(grouped[b])
                        /\ Members(other.grouped[b]) = Members(grouped[b])
               /\ table_pc \in EXTRACTORS =>
                    LET t == print_swebench_table(TableGroup(other.grouped[table_pc]))
                    IN /\ t.baseline_rate = baseline_rate
                       /\ Len(t.rows) = Len(rows)
                       /\ Members(t.rows) = Members(rows)
                       /\ \A k \in 1..Len(rows) : t.rows[k].rate = rows[k].rate

C13_Witness ==
    /\ table_pc = "swe-bench-lite"
    /\ Len(seen) = 2
    /\ Len(grouped["swe-bench-lite"]) = 2
    /\ IsF16(grouped["swe-bench-lite"][1]) /\ grouped["swe-bench-lite"][1].rate = 0
    /\ IsF16(grouped["swe-bench-lite"][2]) /\ grouped["swe-bench-lite"][2].rate = 50000
    /\ baseline_rate = 50000
    /\ rows[1].run_id = 2
    /\ rows[2].delta_str = Signed(0 - 50000)
====
